---- MODULE Spec2Model ----
(***************************************************************************)
(* The container manager of containerManagerToy: the thrift handler        *)
(* ContainerManagerHandler (src/manager.py) as a state machine, one action *)
(* per handler call, together with the request the Assistent builds in     *)
(* Assistent._report (src/assistent_manager.py).                           *)
(*                                                                         *)
(* The thrift server is a TSimpleServer (src/main.py:80): handler bodies   *)
(* run one at a time, so a handler call is one atomic step.  A handler     *)
(* that raises leaves the server running with whatever it had already      *)
(* written; the kind of exception is recorded in ret.outcome.              *)
(***************************************************************************)
EXTENDS Integers, Sequences, FiniteSets, TLC

\* ---------------------------------------------------------------- bounds
\* startContainer is not called while the runnable queue holds MaxQueue tags
MaxQueue == 2

\* the tags the callers use (those of the integration test)
Tags == {"one", "two"}
\* the commands of the integration test and of client.py
Commands == {"/bin/echo", "/bin/sleep"}

\* ------------------------------------------------------------ value types
READY == "READY"
RUNNING == "RUNNING"
STOPPING == "STOPPING"
DEAD == "DEAD"
ContainerState == {READY, RUNNING, STOPPING, DEAD}

OKAY == "OKAY"
STOP == "STOP"
ABORT == "ABORT"

\* an optional thrift field that was never assigned
None == [code |-> "NONE", status |-> 0]
\* two exit infos _zombieCheck can produce: exit code 0, killed by SIGTERM
ExitInfos ==
    { [code |-> "EXIT", status |-> 0],
      [code |-> "SIGNAL", status |-> 15] }

\* pids an agent may put in a report (the integration test uses 100/200 and 300/400)
Pids == {100, 300}
WorkloadPids == {200}
\* the pid of the command forked by unshare --fork
CommandPids == {201}
\* pid and workloadPid of an AssistentManagerInfo that no report has stamped yet
UnsetPid == 0
\* {parentCgroup}/{tag}, the cgroup the Executor puts the Assistent of a tag in
CgroupPath(tag) ==
    IF tag = "one" THEN "/sys/fs/cgroup/containers.slice/one"
    ELSE "/sys/fs/cgroup/containers.slice/two"

VARIABLES
    containerInfos,     \* dict tag -> ContainerInfo           (manager.py:62)
    assistentManagers,  \* dict tag -> AssistentManagerInfo    (manager.py:64)
    runnable,           \* list of tags                        (manager.py:67)
    runningContainers,  \* set of tags                         (manager.py:69)
    ret,                \* the last handler call and how it ended
    pending,            \* history: the tags enqueued by successful startContainer calls
                        \* that no dequeueReadyContainers response has returned yet,
                        \* in the order of the calls
    started,            \* history: the tags with a ContainerInfo for which a
                        \* startContainer call has succeeded since it was created
    promotion,          \* history: tag -> the request that promoted it to RUNNING,
                        \* for the tags that have a ContainerInfo
    executor,           \* where the Executor is in driveState      (executor.py:152)
    launching,          \* the dequeued tags it has not yet forked for (executor.py:154-157)
    children,           \* dict pid -> tag of the forked Assistents (executor.py:49)
    cgroups,            \* the tags whose directory {cgPath}/{tag} exists
    strays,             \* the tags whose cgroup holds workload processes that lost
                        \* their parent: a command whose unshare has ended, or a
                        \* workload whose Assistent has been waited for
    procs,              \* pid -> the Assistent process with that pid and its workload
    manager,            \* "up" while the Manager process serves calls, else "down"
    registered,         \* main.py forked the Executor and registered signalHandler
                        \* for it (main.py:61-71); FALSE under --no-executor
    orphan,             \* an Executor forked by an earlier main.py that outlived it
    survivors,          \* history: the Assistents that were in their monitor loop at
                        \* the last Manager start, up to the end of the turn of
                        \* their first report since: "report" before that report,
                        \* "signal" between its answer STOP or ABORT and the fan-out
    fanout              \* the input and the result of a sendSignalToCgroup call

tables == <<containerInfos, assistentManagers, runnable, runningContainers>>
history == <<pending, started, promotion>>
system == <<executor, launching, children, cgroups, strays, procs>>
host == <<manager, registered, orphan, survivors, fanout>>
vars == <<containerInfos, assistentManagers, runnable, runningContainers, ret,
          pending, started, promotion, executor, launching, children, cgroups,
          strays, procs, manager, registered, orphan, survivors, fanout>>

\* ------------------------------------------------------------ dict helpers
DictDel(d, k) == [x \in (DOMAIN d) \ {k} |-> d[x]]
DictSet(d, k, v) == [x \in (DOMAIN d) \cup {k} |-> IF x = k THEN v ELSE d[x]]
EmptyDict == [x \in {} |-> None]

\* ContainerInfo(tag, state): exitInfo is left unset
ContainerInfo(tag, state) == [tag |-> tag, state |-> state, exitInfo |-> None]

\* AssistentManagerInfo(tag, command): "empty run state (no pid or workload pid)"
AssistentManagerInfo(tag, command) ==
    [tag |-> tag, command |-> command, pid |-> UnsetPid,
     workloadPid |-> UnsetPid, cgroupPath |-> ""]

\* how a call ended: outcome is "ok" or the exception raised
\* was is the state the tag had when the call was served ("-" without ContainerInfo)
Ret(op, tag, outcome) ==
    [op |-> op, tag |-> tag, outcome |-> outcome,
     was |-> IF tag \in DOMAIN containerInfos THEN containerInfos[tag].state ELSE "-",
     command |-> "-", state |-> "-", status |-> "-", tags |-> <<>>, infos |-> <<>>]

StartRet(tag, command, outcome) ==
    [Ret("startContainer", tag, outcome) EXCEPT !.command = command]

\* ------------------------------------------------------- validation helpers
tag_exists(tag) == tag \in DOMAIN containerInfos

\* _checkInStates: TRUE when the check passes
checkInStates(tag, states) == containerInfos[tag].state \in states

StartStates == {READY}

\* An entry of the process table: no process, or the child forked for a tag:
\* at "wait" (a copy of the Executor, blocked on the pipe), at "init" (released,
\* up to the end of Assistent.__init__), in its loop at "monitor" (before
\* _zombieCheck), "report" (before the call of _report), "term" or "kill"
\* (answered STOP or ABORT, before sendSignalToCgroup), at "abort" (between
\* the SIGKILL of an ABORT and sys.exit(1)), at "break" (out of the loop,
\* before sys.exit(0)), or a "zombie" (exited, not yet waited for). command
\* is that of the info Assistent.__init__ was given, "" without one; execed
\* once os.execv has replaced the forked copy of the Executor by the Assistent
\* binary; workload is the unshare process it started with Popen ("exited"
\* once that has ended, "gone" once _zombieCheck has waited for it).
NoProc ==
    [pc |-> "none", tag |-> "", command |-> "", inCgroup |-> FALSE,
     execed |-> FALSE, workload |-> "none", exit |-> None, status |-> -1]

\* a stop that accepts only a RUNNING container
StopStates_running == {RUNNING}

StopStates == {STOPPING, RUNNING}

\* a delete that refuses only a RUNNING container
ActiveStates_running == {RUNNING}

ActiveStates == {RUNNING, STOPPING}

\* no sendSignalToCgroup call yet
NoFanout ==
    [members |-> {}, caller |-> 0, ignore |-> {}, gone |-> {}, order |-> <<>>,
     done |-> FALSE, sent |-> {}, raised |-> FALSE]

\* an Executor process: where it is in driveState, the dequeued tags it has
\* not yet forked for, and its children map
NoExecutor == [pc |-> "none", launching |-> <<>>, children |-> EmptyDict]

\* a fresh ContainerManagerHandler, and no Executor child yet
InitHost ==
    /\ containerInfos = EmptyDict
    /\ assistentManagers = EmptyDict
    /\ runnable = <<>>
    /\ runningContainers = {}
    /\ ret = Ret("init", "", "ok")
    /\ pending = <<>>
    /\ started = {}
    /\ promotion = EmptyDict
    /\ executor = "launch"
    /\ launching = <<>>
    /\ children = EmptyDict
    /\ cgroups = {}
    /\ strays = {}
    /\ procs = [pid \in Pids |-> NoProc]
    /\ manager = "up"
    /\ registered = TRUE
    /\ orphan = NoExecutor
    /\ survivors = EmptyDict

Init ==
    /\ InitHost
    /\ fanout = NoFanout

\* --------------------------------------------------------------- user API
createContainer(tag) ==
    IF tag_exists(tag)
    THEN /\ ret' = Ret("createContainer", tag, "InvalidOperation")
         /\ UNCHANGED tables
    ELSE /\ containerInfos' = DictSet(containerInfos, tag, ContainerInfo(tag, READY))
         /\ ret' = Ret("createContainer", tag, "ok")
         /\ UNCHANGED <<assistentManagers, runnable, runningContainers>>

\* a queue that inserts at the front
listAppend_front(q, tag) == <<tag>> \o q

\* self.runnable.append(tag)
listAppend(q, tag) == Append(q, tag)

startContainer(tag, command) ==
    IF ~tag_exists(tag) \/ ~checkInStates(tag, StartStates)
    THEN /\ ret' = StartRet(tag, command, "InvalidOperation")
         /\ UNCHANGED tables
    ELSE IF tag \in DOMAIN assistentManagers
    THEN \* assert request.tag not in self.assistentManagers
         /\ ret' = StartRet(tag, command, "AssertionError")
         /\ UNCHANGED tables
    ELSE /\ assistentManagers' =
                DictSet(assistentManagers, tag, AssistentManagerInfo(tag, command))
         /\ runnable' = listAppend(runnable, tag)
         /\ ret' = StartRet(tag, command, "ok")
         /\ UNCHANGED <<containerInfos, runningContainers>>

stopContainer(tag) ==
    IF ~tag_exists(tag) \/ ~checkInStates(tag, StopStates)
    THEN /\ ret' = Ret("stopContainer", tag, "InvalidOperation")
         /\ UNCHANGED tables
    ELSE /\ containerInfos' = [containerInfos EXCEPT ![tag].state = STOPPING]
         /\ ret' = Ret("stopContainer", tag, "ok")
         /\ UNCHANGED <<assistentManagers, runnable, runningContainers>>

\* a delete that leaves the AssistentManagerInfo behind
dropAssistent_keep(d, tag) == d

\* if request.tag in self.assistentManagers: del self.assistentManagers[request.tag]
dropAssistent(d, tag) == DictDel(d, tag)

deleteContainer(tag) ==
    IF ~tag_exists(tag) \/ containerInfos[tag].state \in ActiveStates
    THEN /\ ret' = Ret("deleteContainer", tag, "InvalidOperation")
         /\ UNCHANGED tables
    ELSE /\ containerInfos' = DictDel(containerInfos, tag)
         /\ assistentManagers' = dropAssistent(assistentManagers, tag)
         /\ ret' = Ret("deleteContainer", tag, "ok")
         /\ UNCHANGED <<runnable, runningContainers>>

\* ------------------------------------------- agent API (executor, assistent)
\* the iteration orders of a collection of the given keys
Orders(keys) ==
    {order \in [1..Cardinality(keys) -> keys] :
        \A i, j \in 1..Cardinality(keys) : i # j => order[i] # order[j]}

\* the requested infos, last first
listSelect_reversed(infos, tags) == [i \in 1..Len(tags) |-> infos[tags[Len(tags) + 1 - i]]]

\* "[self.containerInfos[tag] for tag in request.tags]"
listSelect(infos, tags) == [i \in 1..Len(tags) |-> infos[tags[i]]]

\* listContainers: request.tags is None (given = FALSE) or a list; order is the
\* order in which self.containerInfos.values() yields the infos
listContainers(request, order) ==
    /\ ret' = IF ~request.given \/ Len(request.tags) < 1
              THEN [Ret("listContainers", "", "ok")
                       EXCEPT !.infos = listSelect(containerInfos, order)]
              ELSE IF \E i \in 1..Len(request.tags) : ~tag_exists(request.tags[i])
              THEN [Ret("listContainers", "", "InvalidOperation")
                       EXCEPT !.tags = request.tags]
              ELSE [Ret("listContainers", "", "ok")
                       EXCEPT !.tags = request.tags,
                              !.infos = listSelect(containerInfos, request.tags)]
    /\ UNCHANGED tables

\* self.runnable[:]
listCopy(q) == q
\* a dequeue that forgets to clear the queue
listClear_keep(q) == q

\* self.runnable.clear()
listClear(q) == <<>>

dequeueReadyContainers ==
    /\ ret' = [Ret("dequeueReadyContainers", "", "ok") EXCEPT !.tags = listCopy(runnable)]
    /\ runnable' = listClear(runnable)
    /\ UNCHANGED <<containerInfos, assistentManagers, runningContainers>>

\* list(self.runningContainers), as a set: the order of the list is not specified
getRunningContainers == runningContainers

\* an unknown tag that is told to carry on
UnknownTagResponse_okay == OKAY

\* the response to a report from a tag without ContainerInfo
UnknownTagResponse == ABORT

\* a DEAD report that leaves the tag in the set
setRemove_keep(s, x) == s

\* self.runningContainers.remove(tag), for a tag that is a member
setRemove(s, x) == s \ {x}

\* a manager that never asks for a stop
Directive_okay(state) == OKAY

\* a manager that asks a RUNNING container to stop and a STOPPING one to go on
Directive_swapped(state) == IF state = RUNNING THEN STOP ELSE OKAY

\* "tell assistent manager to stop the container if it was requested"
Directive(state) == IF state = STOPPING THEN STOP ELSE OKAY

\* a promotion that forgets to look at the reported state
isPromotion_anyReport(reported, current) == current = READY

\* a promotion that forgets to look at the current state
isPromotion_anyState(reported, current) == reported = RUNNING

\* request.state == RUNNING and self.containerInfos[request.tag].state == READY
isPromotion(reported, current) == reported = RUNNING /\ current = READY

\* a Manager that answers an unmanaged tag with a made-up info
getAssistentManagerStatus_default(tag) ==
    IF tag \in DOMAIN assistentManagers THEN assistentManagers[tag]
    ELSE [tag |-> tag, command |-> "/bin/echo", pid |-> UnsetPid,
          workloadPid |-> UnsetPid, cgroupPath |-> ""]

\* response.amInfo of getAssistentManagerStatus(tag): None when the tag is not managed
getAssistentManagerStatus(tag) ==
    IF tag \in DOMAIN assistentManagers THEN assistentManagers[tag] ELSE None

ReportRet(request, outcome, status) ==
    [Ret("reportContainerStatus", request.tag, outcome)
        EXCEPT !.state = request.state, !.status = status]

reportContainerStatus(request) ==
    LET tag == request.tag IN
    IF tag \notin DOMAIN containerInfos
    THEN /\ ret' = ReportRet(request, "ok", UnknownTagResponse)
         /\ UNCHANGED tables
    ELSE IF isPromotion(request.state, containerInfos[tag].state)
    THEN IF tag \notin DOMAIN assistentManagers
         THEN \* amInfo = self.assistentManagers[request.tag] raises, nothing written yet
              /\ ret' = ReportRet(request, "KeyError", "-")
              /\ UNCHANGED tables
         ELSE /\ assistentManagers' =
                     [assistentManagers EXCEPT ![tag].pid = request.pid,
                                               ![tag].workloadPid = request.workloadPid]
              /\ containerInfos' = [containerInfos EXCEPT ![tag].state = RUNNING]
              /\ runningContainers' = runningContainers \cup {tag}
              /\ ret' = ReportRet(request, "ok", Directive(RUNNING))
              /\ UNCHANGED runnable
    ELSE IF request.state = DEAD
    THEN /\ containerInfos' =
                [containerInfos EXCEPT ![tag].state = DEAD,
                                       ![tag].exitInfo = request.exitInfo]
         /\ IF tag \in runningContainers
            THEN /\ runningContainers' = setRemove(runningContainers, tag)
                 /\ ret' = ReportRet(request, "ok", Directive(DEAD))
            ELSE \* set.remove of a missing member raises, after state and exitInfo were written
                 /\ runningContainers' = runningContainers
                 /\ ret' = ReportRet(request, "KeyError", "-")
         /\ UNCHANGED <<assistentManagers, runnable>>
    ELSE /\ ret' = ReportRet(request, "ok", Directive(containerInfos[tag].state))
         /\ UNCHANGED tables

\* ------------------------------------------------------------- Assistent
\* The request Assistent._report(info) builds: info only selects the state;
\* request.exitInfo is never assigned.
AssistentRequest(tag, info, pid, workloadPid) ==
    [tag |-> tag,
     state |-> IF info = None THEN RUNNING ELSE DEAD,
     pid |-> pid,
     workloadPid |-> workloadPid,
     cgroupPath |-> CgroupPath(tag),
     exitInfo |-> None]

\* every request a client of the agent surface can send
Requests ==
    { [tag |-> tag, state |-> state, pid |-> pid, workloadPid |-> cpid,
       cgroupPath |-> CgroupPath(tag), exitInfo |-> info] :
        tag \in Tags, state \in ContainerState, pid \in Pids, cpid \in WorkloadPids,
        info \in ExitInfos \cup {None} }

\* ------------------------------------------------------------- the actions
\* s without the first occurrence of x
RECURSIVE RemoveOnce(_, _)
RemoveOnce(s, x) ==
    IF s = <<>> THEN <<>>
    ELSE IF Head(s) = x THEN Tail(s)
    ELSE <<Head(s)>> \o RemoveOnce(Tail(s), x)

\* s without one occurrence of each element of r
RECURSIVE SeqMinus(_, _)
SeqMinus(s, r) ==
    IF r = <<>> THEN s ELSE SeqMinus(RemoveOnce(s, Head(r)), Tail(r))

\* the history of a report: a step that takes the tag from READY to RUNNING
\* records the request that did it
Promoted(request) ==
    IF /\ request.tag \in DOMAIN containerInfos
       /\ containerInfos[request.tag].state = READY
       /\ containerInfos'[request.tag].state = RUNNING
    THEN DictSet(promotion, request.tag,
                 [pid |-> request.pid, workloadPid |-> request.workloadPid,
                  cgroupPath |-> request.cgroupPath])
    ELSE promotion

CreateContainer ==
    /\ \E tag \in Tags : createContainer(tag)
    /\ UNCHANGED <<history, system, host>>

StartContainer ==
    /\ \E tag \in Tags, command \in Commands : startContainer(tag, command)
    /\ ret'.outcome = "ok" => Len(runnable) < MaxQueue
    /\ pending' = IF ret'.outcome = "ok" THEN Append(pending, ret'.tag) ELSE pending
    /\ started' = IF ret'.outcome = "ok" THEN started \cup {ret'.tag} ELSE started
    /\ UNCHANGED <<promotion, system, host>>

StopContainer ==
    /\ \E tag \in Tags : stopContainer(tag)
    /\ UNCHANGED <<history, system, host>>

DeleteContainer ==
    /\ \E tag \in Tags : deleteContainer(tag)
    /\ started' = IF ret'.outcome = "ok" THEN started \ {ret'.tag} ELSE started
    /\ promotion' = IF ret'.outcome = "ok" THEN DictDel(promotion, ret'.tag) ELSE promotion
    /\ UNCHANGED <<pending, system, host>>

DequeueReadyContainers ==
    /\ dequeueReadyContainers
    /\ pending' = SeqMinus(pending, ret'.tags)
    /\ UNCHANGED <<started, promotion, system, host>>

\* a report sent by any client of the agent surface (the integration test)
ReportContainerStatus ==
    /\ \E request \in Requests :
          /\ reportContainerStatus(request)
          /\ promotion' = Promoted(request)
    /\ UNCHANGED <<pending, started, system, host>>

\* a report sent by the monitor loop of an Assistent
AssistentReport ==
    /\ \E tag \in Tags, info \in ExitInfos \cup {None}, pid \in Pids, cpid \in WorkloadPids :
          /\ reportContainerStatus(AssistentRequest(tag, info, pid, cpid))
          /\ promotion' = Promoted(AssistentRequest(tag, info, pid, cpid))
    /\ UNCHANGED <<pending, started, system, host>>

Next ==
    \/ CreateContainer
    \/ StartContainer
    \/ StopContainer
    \/ DeleteContainer
    \/ DequeueReadyContainers
    \/ ReportContainerStatus
    \/ AssistentReport

Spec == Init /\ [][Next]_vars

\* ------------------------------------------------------- listContainers

\* the longest list of tags a ListContainerRequest carries
MaxListed == 2

ListRequests ==
    {[given |-> FALSE, tags |-> <<>>]} \cup
    {[given |-> TRUE, tags |-> tags] :
        tags \in UNION {[1..n -> Tags] : n \in 0..MaxListed}}

ListContainers ==
    /\ \E request \in ListRequests, order \in Orders(DOMAIN containerInfos) :
          listContainers(request, order)
    /\ UNCHANGED <<history, system, host>>

ListNext ==
    \/ CreateContainer
    \/ StartContainer
    \/ StopContainer
    \/ DeleteContainer
    \/ AssistentReport
    \/ ListContainers

\* the calls of the integration test that change a ContainerInfo, and
\* listContainers between them
ListSpec == Init /\ [][ListNext]_vars

\* ------------------------------------------------- Executor and Assistents

\* the pids os.fork() may give the next child: any pid no process has
FreePid(ps) == {pid \in Pids : ps[pid].pc = "none"}

\* the Executor forked by the last main.py that forked one
Forked == [pc |-> executor, launching |-> launching, children |-> children]

\* an Executor process that has not ended: before _getContainers or a fork
\* ("launch"), between a fork and prepareChild ("prepare"), before
\* _handleZombies ("reap")
Running(e) == e.pc \in {"launch", "prepare", "reap"}

\* the step of an Executor written back: to the Executor of the last main.py,
\* or to the one that outlived an earlier main.py
PutForked(e) ==
    /\ executor' = e.pc /\ launching' = e.launching /\ children' = e.children
    /\ UNCHANGED orphan

PutOrphan(e) ==
    /\ orphan' = e
    /\ UNCHANGED <<executor, launching, children>>

\* the two Executor processes a host can have, and the state of each
Executors == {"forked", "orphan"}
Self(who) == IF who = "forked" THEN Forked ELSE orphan
Put(who, e) == IF who = "forked" THEN PutForked(e) ELSE PutOrphan(e)

\* _getContainers, the first call of a driveState tick: the Manager hands over
\* its runnable queue; only then, in the Executor's own process, the launches
\* follow. The call has no handler: a Manager that is down ends the Executor.
getContainers(who) ==
    /\ Self(who).pc = "launch" /\ Self(who).launching = <<>>
    /\ IF manager = "up"
       THEN /\ dequeueReadyContainers
            /\ pending' = SeqMinus(pending, ret'.tags)
            /\ Put(who, [Self(who) EXCEPT
                            !.launching = ret'.tags,
                            !.pc = IF ret'.tags = <<>> THEN "reap" ELSE "launch"])
       ELSE /\ Put(who, [Self(who) EXCEPT !.pc = "crashed"])
            /\ UNCHANGED <<tables, ret, pending>>
    /\ UNCHANGED <<started, promotion, cgroups, strays, procs,
                   manager, registered, survivors, fanout>>

ExecutorGetContainers == Running(Forked) /\ getContainers("forked")

\* the first statements of _execAssistentManager for the next tag of "for tag
\* in tags": os.fork and children[pid] = tag. The child, a copy of the
\* Executor in the Executor's cgroup, blocks in readEnd.read().
execAssistentManager(who, pid, tag) ==
    LET e == Self(who)
    IN  /\ procs' = [procs EXCEPT ![pid] = [NoProc EXCEPT !.pc = "wait", !.tag = tag]]
        /\ Put(who, [children |-> DictSet(e.children, pid, tag),
                     launching |-> Tail(e.launching),
                     pc |-> "prepare"])

\* one iteration of "for tag in tags: self._execAssistentManager(tag)", up to
\* the call of prepareChild
execNext(who) ==
    /\ Self(who).pc = "launch" /\ Self(who).launching # <<>>
    /\ \E pid \in FreePid(procs) :
          execAssistentManager(who, pid, Head(Self(who).launching))
    /\ UNCHANGED <<tables, ret, history, cgroups, strays,
                   manager, registered, survivors, fanout>>

ExecutorExec == Running(Forked) /\ execNext("forked")

\* the child an Executor has forked and not yet released
Waiting(e) == CHOOSE pid \in DOMAIN e.children : procs[pid].pc = "wait"

\* prepareChild and the write to the pipe: os.makedirs of {cgPath}/{tag}, the
\* child's pid written to its cgroup.procs, then the child released.
\* os.makedirs without exist_ok raises when the directory exists; driveState
\* has no handler, so the Executor ends there, and its child, released by
\* the closing pipe, runs outside the per-tag cgroup.
prepareChild(who) ==
    /\ Self(who).pc = "prepare"
    /\ LET e == Self(who)
           pid == Waiting(e)
           tag == e.children[pid]
           made == tag \notin cgroups
       IN  /\ cgroups' = cgroups \cup {tag}
           /\ procs' = [procs EXCEPT ![pid].pc = "init", ![pid].inCgroup = made]
           /\ Put(who, [e EXCEPT
                           !.launching = IF made THEN @ ELSE <<>>,
                           !.pc = IF ~made THEN "crashed"
                                  ELSE IF e.launching = <<>> THEN "reap" ELSE "launch"])
    /\ UNCHANGED <<tables, ret, history, strays,
                   manager, registered, survivors, fanout>>

ExecutorPrepare == Running(Forked) /\ prepareChild("forked")

\* unshare, or the command it forked, has not ended: "running", "signalled"
\* once a fan-out has sent unshare a signal, "alone" once the command is known
\* to have ended before unshare
Lives(p) == p.workload \in {"running", "signalled", "alone"}

\* os.rmdir of a cgroup directory fails while the cgroup has a live member:
\* an Assistent that has not exited, its unshare or the command of it, or
\* processes that have outlived those
CgroupBusy(tag) ==
    \/ tag \in strays
    \/ \E pid \in Pids :
          /\ procs[pid].tag = tag /\ procs[pid].inCgroup
          /\ \/ procs[pid].pc \in {"init", "monitor", "report", "term", "kill", "abort", "break"}
             \/ Lives(procs[pid])

\* a removal that leaves the directory in place
recursivelyDeleteCgroups_keep(dirs, tag) == dirs

\* os.walk bottom-up and os.rmdir: the directory {cgPath}/{tag} is gone
recursivelyDeleteCgroups(dirs, tag) == dirs \ {tag}

\* the second half of a driveState tick: "if self.children: _handleZombies()".
\* waitpid(-1, WNOHANG) returns one exited child, if there is one; its cgroup
\* directory is removed and its children entry erased. A failing rmdir is not
\* handled and ends the Executor, the child already waited for.
handleZombies(who) ==
    /\ Self(who).pc = "reap"
    /\ LET e == Self(who)
           zombies == {pid \in DOMAIN e.children : procs[pid].pc = "zombie"} IN
       IF zombies = {}
       THEN /\ Put(who, [e EXCEPT !.pc = "launch"])
            /\ UNCHANGED <<cgroups, strays, procs>>
       ELSE \E cpid \in zombies :
              IF CgroupBusy(e.children[cpid])
              THEN /\ Put(who, [e EXCEPT !.pc = "crashed"])
                   /\ procs' = [procs EXCEPT ![cpid] = NoProc]
                   /\ strays' = IF Lives(procs[cpid])
                                 THEN strays \cup {e.children[cpid]} ELSE strays
                   /\ UNCHANGED cgroups
              ELSE /\ Put(who, [e EXCEPT !.pc = "launch",
                                         !.children = DictDel(e.children, cpid)])
                   /\ cgroups' = recursivelyDeleteCgroups(cgroups, e.children[cpid])
                   /\ procs' = [procs EXCEPT ![cpid] = NoProc]
                   /\ UNCHANGED strays
    /\ UNCHANGED <<tables, ret, history,
                   manager, registered, survivors, fanout>>

ExecutorHandleZombies == Running(Forked) /\ handleZombies("forked")

\* the same steps taken by an Executor that outlived the main.py that
\* forked it: it calls whichever Manager listens on the port
OrphanGetContainers == Running(orphan) /\ getContainers("orphan")
OrphanExec == Running(orphan) /\ execNext("orphan")
OrphanPrepare == Running(orphan) /\ prepareChild("orphan")
OrphanHandleZombies == Running(orphan) /\ handleZombies("orphan")

\* the exec of the Assistent binary and Assistent.__init__ up to the answer
\* of its call: it asserts that it runs below the parent cgroup (a failed
\* assert ends it with status 1) and asks the Manager for its
\* AssistentManagerInfo; a failed call leaves it without.
AssistentSetup(pid) ==
    /\ procs[pid].pc = "init" /\ ~procs[pid].execed
    /\ LET p == procs[pid]
           info == IF manager = "up" THEN getAssistentManagerStatus(p.tag) ELSE None
       IN  procs' = [procs EXCEPT ![pid] =
              IF ~p.inCgroup
              THEN [p EXCEPT !.pc = "zombie", !.execed = TRUE, !.status = 1]
              ELSE [p EXCEPT !.execed = TRUE,
                             !.command = IF info = None THEN "" ELSE info.command]]
    /\ UNCHANGED <<tables, ret, history, executor, launching, children, cgroups, strays, host>>

\* the rest of the way to the monitor loop, in the Assistent's own process:
\* without an info it exits 1; with one, startContainer starts the workload
\* with Popen.
AssistentStart(pid) ==
    /\ procs[pid].pc = "init" /\ procs[pid].execed
    /\ LET p == procs[pid]
       IN  procs' = [procs EXCEPT ![pid] =
              IF p.command = ""
              THEN [p EXCEPT !.pc = "zombie", !.status = 1]
              ELSE [p EXCEPT !.pc = "monitor", !.workload = "running"]]
    /\ UNCHANGED <<tables, ret, history, executor, launching, children, cgroups, strays, host>>

\* unshare ends: with the command it waited for, or by a signal of a fan-out.
\* It is run without --kill-child, so of an unshare that was sent a signal
\* the command can be left behind in the cgroup: forked after the read of
\* cgroup.procs, or signalled and not ended.
WorkloadExit(pid) ==
    /\ Lives(procs[pid])
    /\ \E info \in ExitInfos,
          left \in (IF procs[pid].workload = "signalled" THEN BOOLEAN ELSE {FALSE}) :
          /\ procs' = [procs EXCEPT ![pid].workload = "exited", ![pid].exit = info]
          /\ strays' = IF left THEN strays \cup {procs[pid].tag} ELSE strays
    /\ UNCHANGED <<tables, ret, history, executor, launching, children, cgroups, host>>

\* the processes left behind in the cgroup of a tag end
StrayExit(tag) ==
    /\ tag \in strays
    /\ strays' = strays \ {tag}
    /\ UNCHANGED <<tables, ret, history, executor, launching, children, cgroups,
                   procs, host>>

\* "for pid in pids: os.kill(pid, sig)": os.kill raises ProcessLookupError for
\* a pid that no longer exists, and the loop has no handler
RECURSIVE killEach(_, _, _)
killEach(order, gone, sent) ==
    IF order = <<>>
    THEN [sent |-> sent, raised |-> FALSE]
    ELSE IF Head(order) \in gone
    THEN [sent |-> sent, raised |-> TRUE]
    ELSE killEach(Tail(order), gone, sent \cup {Head(order)})

\* the pids the signal is meant for: cgroup.procs without the caller and
\* without pidsToIgnore
Targets(members, caller, ignore) == (members \ {caller}) \ ignore

\* sendSignalToCgroup on a cgroup whose cgroup.procs reads members; gone are
\* the pids that ended after the read, order is the iteration order of the set
sendSignalToCgroup(members, caller, ignore, gone, order) ==
    LET pids == Targets(members, caller, ignore)
    IN  killEach(SelectSeq(order, LAMBDA pid : pid \in pids), gone, {})

\* what a read of the cgroup.procs of an Assistent's cgroup can give: the
\* Assistent itself and, while unshare (started by Popen) lives, unshare with
\* or without the command that it forks and waits for; once the command is
\* known to have ended, unshare only; after unshare, the command if it was
\* left behind (stray)
CgroupProcs(pid, cpid, cmd, workload, stray) ==
    IF workload \in {"running", "signalled"}
    THEN {{pid, cpid, cmd}, {pid, cpid}}
    ELSE IF workload = "alone"
    THEN {{pid, cpid}}
    ELSE IF stray
    THEN {{pid, cmd}}
    ELSE {{pid}}

\* an Assistent nothing has been reaped for
zombieCheck_never(p) == None

\* _zombieCheck: the exit information of the workload if it has ended
zombieCheck(p) == IF p.workload = "exited" THEN p.exit ELSE None

\* the pc values of an Assistent inside "while True" of monitor
LoopPcs == {"monitor", "report", "term", "kill"}

\* the pc values of an Assistent process that has not exited
LivePcs == {"wait", "init", "abort", "break"} \cup LoopPcs

\* cInfo of the turn in progress, once _zombieCheck has run
cInfo(p) == IF p.workload = "gone" THEN p.exit ELSE None

\* the end of a turn, after _report has returned: "if cInfo: break", else
\* sleep(1) and the next turn
turnEnd(p) == [p EXCEPT !.pc = IF cInfo(p) # None THEN "break" ELSE "monitor"]

\* the first statement of a monitor turn: _zombieCheck reaps the workload if
\* it has ended (waitpid with WNOHANG)
AssistentZombieCheck(pid) ==
    /\ procs[pid].pc = "monitor"
    /\ procs' = [procs EXCEPT
                   ![pid].pc = "report",
                   ![pid].workload = IF zombieCheck(procs[pid]) # None THEN "gone" ELSE @]
    /\ UNCHANGED <<tables, ret, history, executor, launching, children, cgroups, strays, host>>

\* the call of _report: reportContainerStatus with state DEAD if this turn
\* reaped the workload, RUNNING if not. An answer STOP or ABORT leads to the
\* fan-out; any other answer, and a call that failed (logged by the except
\* clause), ends the turn.
AssistentSendReport(pid) ==
    /\ procs[pid].pc = "report"
    /\ LET p == procs[pid]
       IN  IF manager = "up"
           THEN \E cpid \in WorkloadPids :
                LET request == AssistentRequest(p.tag, cInfo(p), pid, cpid)
                IN  /\ reportContainerStatus(request)
                    /\ promotion' = Promoted(request)
                    /\ procs' = [procs EXCEPT ![pid] =
                          IF ret'.outcome = "ok" /\ ret'.status = ABORT
                          THEN [p EXCEPT !.pc = "kill"]
                          ELSE IF ret'.outcome = "ok" /\ ret'.status = STOP
                          THEN [p EXCEPT !.pc = "term"]
                          ELSE turnEnd(p)]
           ELSE /\ procs' = [procs EXCEPT ![pid] = turnEnd(p)]
                /\ UNCHANGED <<tables, ret, promotion>>
    /\ survivors' = IF pid \notin DOMAIN survivors THEN survivors
                    ELSE IF procs'[pid].pc \in {"term", "kill"}
                    THEN DictSet(survivors, pid, "signal")
                    ELSE DictDel(survivors, pid)
    /\ UNCHANGED <<pending, started, executor, launching, children, cgroups, strays,
                   manager, registered, orphan, fanout>>

\* sendSignalToCgroup in _report, for one reading of cgroup.procs, one set of
\* pids that ended after the read and one iteration order: SIGTERM after
\* STOP, after which the turn ends; SIGKILL after ABORT, followed by
\* sys.exit(1). An exception of the fan-out is caught by the except clause of
\* _report, which logs it, and the turn ends without the exit. A command found
\* ended leaves unshare alone, or the cgroup without stray.
fanOut(pid, members, gone, order) ==
    LET p == procs[pid]
        kill == sendSignalToCgroup(members, pid, {}, gone, order)
        hit == IF ~Lives(p) THEN p.workload
               ELSE IF gone # {} THEN "alone"
               ELSE IF kill.sent \cap WorkloadPids # {} /\ p.workload = "running"
               THEN "signalled"
               ELSE p.workload
    IN  /\ p.pc \in {"term", "kill"}
        /\ procs' = [procs EXCEPT ![pid] =
              IF p.pc = "kill" /\ ~kill.raised
              THEN [p EXCEPT !.pc = "abort", !.workload = hit]
              ELSE turnEnd([p EXCEPT !.workload = hit])]
        /\ strays' = IF ~Lives(p) /\ gone # {} THEN strays \ {p.tag} ELSE strays
        /\ survivors' = IF pid \in DOMAIN survivors /\ survivors[pid] = "signal"
                        THEN DictDel(survivors, pid)
                        ELSE survivors
        /\ UNCHANGED <<tables, ret, history, executor, launching, children, cgroups,
                       manager, registered, orphan, fanout>>

\* the readings of cgroup.procs an Assistent's fan-out can get
Readings(pid) ==
    UNION {CgroupProcs(pid, cpid, cmd, procs[pid].workload, procs[pid].tag \in strays) :
             cpid \in WorkloadPids, cmd \in CommandPids}

\* the fan-out of an Assistent answered STOP or ABORT
AssistentSendSignal(pid) ==
    /\ procs[pid].pc \in {"term", "kill"}
    /\ \E members \in Readings(pid) :
          \E gone \in SUBSET (members \cap CommandPids),
             order \in Orders(Targets(members, pid, {})) :
             fanOut(pid, members, gone, order)

\* the Assistent process ends: sys.exit(1) after an ABORT, or, its workload
\* reaped, the break out of the loop and sys.exit(0) at the end of main
AssistentExit(pid) ==
    /\ procs[pid].pc \in {"abort", "break"}
    /\ procs' = [procs EXCEPT ![pid].pc = "zombie",
                              ![pid].status = IF procs[pid].pc = "abort" THEN 1 ELSE 0]
    /\ UNCHANGED <<tables, ret, history, executor, launching, children, cgroups, strays, host>>

\* the process has an Executor that has not ended for parent
Parented(pid) ==
    \/ Running(Forked) /\ pid \in DOMAIN children
    \/ Running(orphan) /\ pid \in DOMAIN orphan.children

\* an exited Assistent whose Executor has ended is reparented to init and
\* waited for there; nobody removes its cgroup directory, and what lives of
\* its workload stays in it
InitReap(pid) ==
    /\ procs[pid].pc = "zombie"
    /\ ~Parented(pid)
    /\ procs' = [procs EXCEPT ![pid] = NoProc]
    /\ strays' = IF Lives(procs[pid]) THEN strays \cup {procs[pid].tag} ELSE strays
    /\ UNCHANGED <<tables, ret, history, executor, launching, children, cgroups, host>>

\* the processes of the table that exist
Live == {pid \in Pids : procs[pid].pc # "none"}

\* startContainer by a user who starts no more containers than the process
\* table has room for
UserStartContainer ==
    /\ StartContainer
    /\ ret'.outcome = "ok" =>
          Cardinality(Live) + Len(runnable) + Len(launching) + Len(orphan.launching)
              < Cardinality(Pids)

\* the command the containers of the larger systems are started with: their
\* steps copy the command and never look at it
OneCommand == {"/bin/echo"}

\* the two containers of the system are started with that command
SystemStart == UserStartContainer /\ ret'.command \in OneCommand

SystemNext ==
    \/ CreateContainer
    \/ SystemStart
    \/ StopContainer
    \/ DeleteContainer
    \/ ExecutorGetContainers
    \/ ExecutorExec
    \/ ExecutorPrepare
    \/ ExecutorHandleZombies
    \/ \E pid \in Pids : AssistentSetup(pid)
    \/ \E pid \in Pids : AssistentStart(pid)
    \/ \E pid \in Pids : WorkloadExit(pid)
    \/ \E tag \in Tags : StrayExit(tag)
    \/ \E pid \in Pids : AssistentZombieCheck(pid)
    \/ \E pid \in Pids : AssistentSendReport(pid)
    \/ \E pid \in Pids : AssistentSendSignal(pid)
    \/ \E pid \in Pids : AssistentExit(pid)
    \/ \E pid \in Pids : InitReap(pid)

\* The Manager serves every call; the Executor's loop and every Assistent's
\* loop keep taking their turns (each sleeps one second between two). The user
\* and the workload are under no obligation.
SystemSpec ==
    /\ Init
    /\ [][SystemNext]_vars
    /\ WF_vars(ExecutorGetContainers)
    /\ WF_vars(ExecutorExec)
    /\ WF_vars(ExecutorPrepare)
    /\ WF_vars(ExecutorHandleZombies)
    /\ \A pid \in Pids :
          /\ WF_vars(AssistentSetup(pid)) /\ WF_vars(AssistentStart(pid))
          /\ WF_vars(AssistentZombieCheck(pid)) /\ WF_vars(AssistentSendReport(pid))
          /\ WF_vars(AssistentSendSignal(pid)) /\ WF_vars(AssistentExit(pid))

\* ------------------------------------------- one container on one host

\* the tag of the one container a lifecycle is run for
HostTags == {"one"}

\* the user's calls for that container, served while the Manager is up
UserCreate == manager = "up" /\ CreateContainer /\ ret'.tag \in HostTags
UserStart == manager = "up" /\ UserStartContainer /\ ret'.tag \in HostTags
UserStop == manager = "up" /\ StopContainer /\ ret'.tag \in HostTags
UserDelete == manager = "up" /\ DeleteContainer /\ ret'.tag \in HostTags

LifecycleNext ==
    \/ UserCreate
    \/ UserStart
    \/ UserStop
    \/ UserDelete
    \/ ExecutorGetContainers
    \/ ExecutorExec
    \/ ExecutorPrepare
    \/ ExecutorHandleZombies
    \/ \E pid \in Pids : AssistentSetup(pid)
    \/ \E pid \in Pids : AssistentStart(pid)
    \/ \E pid \in Pids : WorkloadExit(pid)
    \/ \E tag \in Tags : StrayExit(tag)
    \/ \E pid \in Pids : AssistentZombieCheck(pid)
    \/ \E pid \in Pids : AssistentSendReport(pid)
    \/ \E pid \in Pids : AssistentSendSignal(pid)
    \/ \E pid \in Pids : AssistentExit(pid)
    \/ \E pid \in Pids : InitReap(pid)

\* the lifecycle of one container with the Manager reachable throughout, the
\* Executor and the Assistents taking their turns
LifecycleSpec ==
    /\ Init
    /\ [][LifecycleNext]_vars
    /\ WF_vars(ExecutorGetContainers)
    /\ WF_vars(ExecutorExec)
    /\ WF_vars(ExecutorPrepare)
    /\ WF_vars(ExecutorHandleZombies)
    /\ \A pid \in Pids :
          /\ WF_vars(AssistentSetup(pid)) /\ WF_vars(AssistentStart(pid))
          /\ WF_vars(AssistentZombieCheck(pid)) /\ WF_vars(AssistentSendReport(pid))
          /\ WF_vars(AssistentSendSignal(pid)) /\ WF_vars(AssistentExit(pid))

\* the Manager process ends: its tables live in its memory only. Ended by
\* SIGTERM or SIGINT the signalHandler it registered kills the Executor it had
\* forked; ended in another way (SIGKILL, an exception of the server), or
\* started with --no-executor, it leaves every Executor running. An Executor
\* killed between its fork and the end of prepareChild leaves the child
\* outside the per-tag cgroup, released by the closing pipe, with or without
\* the directory made.
ManagerStop ==
    /\ manager = "up"
    /\ manager' = "down"
    /\ registered' = FALSE
    /\ containerInfos' = EmptyDict
    /\ assistentManagers' = EmptyDict
    /\ runnable' = <<>>
    /\ runningContainers' = {}
    /\ ret' = Ret("init", "", "ok")
    /\ pending' = <<>>
    /\ started' = {}
    /\ promotion' = EmptyDict
    /\ survivors' = EmptyDict
    /\ \E handled \in (IF registered THEN BOOLEAN ELSE {FALSE}) :
          IF handled /\ executor = "prepare"
          THEN \E made \in (IF children[Waiting(Forked)] \in cgroups
                            THEN {FALSE} ELSE BOOLEAN) :
                  /\ executor' = "killed"
                  /\ launching' = <<>>
                  /\ cgroups' = IF made THEN cgroups \cup {children[Waiting(Forked)]}
                                 ELSE cgroups
                  /\ procs' = [procs EXCEPT ![Waiting(Forked)].pc = "init"]
          ELSE /\ executor' = IF handled /\ executor # "crashed" THEN "killed" ELSE executor
               /\ launching' = IF handled THEN <<>> ELSE launching
               /\ UNCHANGED <<cgroups, procs>>
    /\ UNCHANGED <<children, strays, orphan, fanout>>

\* main.py is run again. Without --no-executor it first forks a new Executor
\* with no children, whether or not an Executor of a run before has ended
\* (one outlived Executor at a time here); with --no-executor nothing is forked
\* and no handler registered. Then it serves with the tables of __init__,
\* unless a Manager is listening on the port already: the bind fails, main.py
\* ends on the exception, and the Executor it has forked goes on beside the
\* Manager that is up.
ManagerStart ==
    \/ /\ manager = "down"
       /\ manager' = "up"
       /\ \E noExecutor \in BOOLEAN :
             /\ registered' = ~noExecutor
             /\ IF noExecutor
                THEN UNCHANGED <<executor, launching, children, orphan>>
                ELSE /\ executor' = "launch"
                     /\ launching' = <<>>
                     /\ children' = EmptyDict
                     /\ IF Running(Forked)
                        THEN ~Running(orphan) /\ orphan' = Forked
                        ELSE UNCHANGED orphan
       /\ survivors' = [pid \in {q \in Pids : procs[q].pc \in LoopPcs} |-> "report"]
       /\ UNCHANGED <<tables, ret, history, cgroups, strays, procs, fanout>>
    \/ /\ manager = "up"
       /\ ~Running(orphan)
       /\ orphan' = [NoExecutor EXCEPT !.pc = "launch"]
       /\ UNCHANGED <<tables, ret, history, executor, launching, children, cgroups,
                      strays, procs, manager, registered, survivors, fanout>>

\* the container of the host with a Manager that restarts is started with the
\* one command
HostStart == UserStart /\ ret'.command \in OneCommand

HostNext ==
    \/ UserCreate
    \/ HostStart
    \/ UserStop
    \/ UserDelete
    \/ ExecutorGetContainers
    \/ ExecutorExec
    \/ ExecutorPrepare
    \/ ExecutorHandleZombies
    \/ \E pid \in Pids : AssistentSetup(pid)
    \/ \E pid \in Pids : AssistentStart(pid)
    \/ \E pid \in Pids : WorkloadExit(pid)
    \/ \E tag \in Tags : StrayExit(tag)
    \/ \E pid \in Pids : AssistentZombieCheck(pid)
    \/ \E pid \in Pids : AssistentSendReport(pid)
    \/ \E pid \in Pids : AssistentSendSignal(pid)
    \/ \E pid \in Pids : AssistentExit(pid)
    \/ \E pid \in Pids : InitReap(pid)
    \/ ManagerStop
    \/ ManagerStart
    \/ OrphanGetContainers
    \/ OrphanExec
    \/ OrphanPrepare
    \/ OrphanHandleZombies

\* the same host with a Manager that can go down and come back
HostSpec == Init /\ [][HostNext]_vars

\* ------------------------------------------------ a launch whose exec fails

\* the exit statuses of a launch that never runs the Assistent: 1 when
\* os.execv of /usr/bin/unshare raises in the child, which ends, still a copy
\* of the Executor, on the uncaught OSError; 126 and 127 when unshare runs and
\* cannot execute the Assistent binary (not executable, missing)
ExecFailStatuses == {1, 126, 127}

\* the forked child ends without the Assistent having run, and has called
\* nobody
ExecFails(pid) ==
    /\ procs[pid].pc = "init" /\ ~procs[pid].execed
    /\ \E status \in ExecFailStatuses :
          procs' = [procs EXCEPT ![pid].pc = "zombie", ![pid].status = status]
    /\ UNCHANGED <<tables, ret, history, executor, launching, children, cgroups, strays, host>>

ExecFailNext ==
    \/ LifecycleNext
    \/ \E pid \in Pids : ExecFails(pid)

\* the lifecycle of one container on a host where an exec can fail
ExecFailSpec ==
    /\ Init
    /\ [][ExecFailNext]_vars
    /\ WF_vars(ExecutorGetContainers)
    /\ WF_vars(ExecutorExec)
    /\ WF_vars(ExecutorPrepare)
    /\ WF_vars(ExecutorHandleZombies)
    /\ \A pid \in Pids :
          /\ WF_vars(AssistentSetup(pid)) /\ WF_vars(AssistentStart(pid))
          /\ WF_vars(AssistentZombieCheck(pid)) /\ WF_vars(AssistentSendReport(pid))
          /\ WF_vars(AssistentSendSignal(pid)) /\ WF_vars(AssistentExit(pid))

\* --------------------------------------------------- the signal fan-out

\* the pids a cgroup.procs can hold in a fan-out
FanoutPids == Pids \cup WorkloadPids \cup CommandPids

\* the inputs of one call of sendSignalToCgroup: the members read from
\* cgroup.procs, the calling process, pidsToIgnore, the members that end
\* between the read and their kill, and the order the set is iterated in
FanoutInit ==
    /\ InitHost
    /\ \E members \in SUBSET FanoutPids, caller \in Pids, ignore \in SUBSET Pids :
          \E gone \in SUBSET Targets(members, caller, ignore),
             order \in Orders(Targets(members, caller, ignore)) :
             fanout = [NoFanout EXCEPT !.members = members, !.caller = caller,
                                       !.ignore = ignore, !.gone = gone, !.order = order]

\* the call: the pids the signal reached, and whether os.kill raised
SendSignal ==
    /\ ~fanout.done
    /\ LET kill == sendSignalToCgroup(fanout.members, fanout.caller, fanout.ignore,
                                      fanout.gone, fanout.order)
       IN  fanout' = [fanout EXCEPT !.done = TRUE, !.sent = kill.sent,
                                    !.raised = kill.raised]
    /\ UNCHANGED <<tables, ret, history, system, manager, registered, orphan, survivors>>

FanoutSpec == FanoutInit /\ [][SendSignal]_vars

\* ===================================================================== claims
StateOf(tag) == containerInfos[tag].state
Count(x, s) == Cardinality({i \in 1..Len(s) : s[i] = x})

\* C1 (as stated): a tag is in the RunningSet returned by getRunningContainers
\* if and only if it has a ContainerInfo whose state is RUNNING.
C1_RunningSetIffRunning ==
    \A tag \in Tags :
        tag \in getRunningContainers <=> (tag_exists(tag) /\ StateOf(tag) = RUNNING)

\* C1 (amended): a tag is in the RunningSet if and only if it has a ContainerInfo
\* whose state is RUNNING or STOPPING (stopContainer leaves the tag in the set;
\* only a DEAD report removes it).
C1_RunningSetIffActive ==
    \A tag \in Tags :
        tag \in getRunningContainers <=> (tag_exists(tag) /\ StateOf(tag) \in ActiveStates)

\* C1 witness: stopContainer has just succeeded on a tag of the RunningSet.
C1_Witness ==
    /\ ret.op = "stopContainer" /\ ret.outcome = "ok"
    /\ StateOf(ret.tag) = STOPPING
    /\ ret.tag \in getRunningContainers

\* C2: for every tag, state DEAD implies exitInfo set, and any other state
\* implies exitInfo unset.
C2_ExitInfoIffDead ==
    \A tag \in DOMAIN containerInfos :
        (StateOf(tag) = DEAD) <=> (containerInfos[tag].exitInfo # None)

\* C3: every element of the RunnableQueue has a ContainerInfo in state READY
\* and an AssistantInfo.
C3_RunnableReadyWithAssistent ==
    \A i \in 1..Len(runnable) :
        /\ tag_exists(runnable[i])
        /\ StateOf(runnable[i]) = READY
        /\ runnable[i] \in DOMAIN assistentManagers

\* C4: a handler call that fails leaves the four Manager tables as they were.
C4_FailedCallChangesNothing ==
    [][ret'.outcome # "ok" => UNCHANGED tables]_vars

\* C5: a DEAD report for a tag whose state is DEAD returns OKAY, leaves the
\* state DEAD and the RunningSet unchanged.
C5_DeadReportIdempotent ==
    [][(/\ ret'.op = "reportContainerStatus"
        /\ ret'.state = DEAD
        /\ tag_exists(ret'.tag)
        /\ StateOf(ret'.tag) = DEAD)
       => (/\ ret'.outcome = "ok"
           /\ ret'.status = OKAY
           /\ containerInfos'[ret'.tag].state = DEAD
           /\ runningContainers' = runningContainers)]_vars

\* C6: every call returns normally or fails with InvalidOperation.
C6_OnlyInvalidOperation == ret.outcome \in {"ok", "InvalidOperation"}

\* C7: startContainer on an existing READY tag succeeds, leaves the state
\* READY, stores an AssistantInfo with the command and appends the tag to the
\* RunnableQueue; on any other tag it fails with InvalidOperation.
C7_StartSucceedsWhenReady ==
    [][ret'.op = "startContainer" =>
         IF tag_exists(ret'.tag) /\ StateOf(ret'.tag) = READY
         THEN /\ ret'.outcome = "ok"
              /\ containerInfos'[ret'.tag].state = READY
              /\ ret'.tag \in DOMAIN assistentManagers'
              /\ assistentManagers'[ret'.tag].command = ret'.command
              /\ runnable' = Append(runnable, ret'.tag)
         ELSE ret'.outcome = "InvalidOperation"]_vars

\* C8: every tag occurrence enqueued by a successful startContainer is returned
\* by exactly one dequeueReadyContainers call, the first one served after the
\* start: the occurrences not yet returned are exactly those in the queue, and
\* after a dequeue none is left.
C8_DeliveredExactlyOnce ==
    /\ \A tag \in Tags : Count(tag, pending) = Count(tag, runnable)
    /\ ret.op = "dequeueReadyContainers" => pending = <<>>

\* C8 witness: one response has delivered two occurrences of the same tag
\* (started, deleted, created and started again before the dequeue).
C8_Witness ==
    /\ ret.op = "dequeueReadyContainers"
    /\ Len(ret.tags) >= 2
    /\ ret.tags[1] = ret.tags[2]

\* C9: dequeueReadyContainers returns the queued tags in the order of their
\* startContainer calls and leaves the queue empty, so a dequeue right after
\* another returns the empty list; it changes no other table.
C9_DequeueFifo ==
    [][ret'.op = "dequeueReadyContainers" =>
         /\ ret'.outcome = "ok"
         /\ ret'.tags = pending
         /\ runnable' = <<>>
         /\ UNCHANGED <<containerInfos, assistentManagers, runningContainers>>
         /\ (ret.op = "dequeueReadyContainers" => ret'.tags = <<>>)]_vars

\* C9 witness: a response has returned two different tags.
C9_Witness ==
    /\ ret.op = "dequeueReadyContainers"
    /\ Len(ret.tags) >= 2
    /\ ret.tags[1] # ret.tags[2]

\* C10: a report for a tag without ContainerInfo returns ABORT, whatever state
\* it reports, and changes no table.
C10_UnknownTagAbort ==
    [][(ret'.op = "reportContainerStatus" /\ ~tag_exists(ret'.tag))
       => (/\ ret'.outcome = "ok"
           /\ ret'.status = ABORT
           /\ UNCHANGED tables)]_vars

\* C10 witness: a DEAD report for an unknown tag was answered ABORT while
\* another tag is being managed.
C10_Witness ==
    /\ ret.op = "reportContainerStatus"
    /\ ret.state = DEAD
    /\ ret.status = ABORT
    /\ ~tag_exists(ret.tag)
    /\ runningContainers # {}

\* The state of a tag before and after a step, "-" without ContainerInfo.
Before(tag) == IF tag \in DOMAIN containerInfos THEN containerInfos[tag].state ELSE "-"
After(tag) == IF tag \in DOMAIN containerInfos' THEN containerInfos'[tag].state ELSE "-"

\* C11: for a tag that has a ContainerInfo, the directive a report returns is
\* STOP exactly when the tag's state after the report is STOPPING, and OKAY
\* otherwise; it is never ABORT.
C11_DirectiveFollowsState ==
    (ret.op = "reportContainerStatus" /\ ret.outcome = "ok" /\ tag_exists(ret.tag))
    => /\ ret.status \in {STOP, OKAY}
       /\ ret.status = STOP <=> StateOf(ret.tag) = STOPPING

\* C11 witness: a report for a STOPPING tag was answered STOP.
C11_Witness ==
    /\ ret.op = "reportContainerStatus" /\ ret.outcome = "ok"
    /\ tag_exists(ret.tag) /\ StateOf(ret.tag) = STOPPING
    /\ ret.status = STOP

\* C12: a tag goes from READY to RUNNING only in a report of state RUNNING for
\* that tag; startContainer and dequeueReadyContainers change no tag's state
\* and do not touch the RunningSet.
C12_PromotionOnlyByReport ==
    [][/\ \A tag \in Tags :
            (Before(tag) = READY /\ After(tag) = RUNNING)
            => (ret'.op = "reportContainerStatus" /\ ret'.tag = tag /\ ret'.state = RUNNING)
       /\ ret'.op \in {"startContainer", "dequeueReadyContainers"}
            => (containerInfos' = containerInfos /\ runningContainers' = runningContainers)
      ]_vars

\* C12 witness: a started tag was handed to the executor and is still READY
\* and outside the RunningSet.
C12_Witness ==
    /\ ret.op = "dequeueReadyContainers" /\ ret.tags # <<>>
    /\ tag_exists(ret.tags[1]) /\ StateOf(ret.tags[1]) = READY
    /\ ret.tags[1] \notin runningContainers

\* C13: createContainer of an existing tag, startContainer of an absent or
\* RUNNING/STOPPING/DEAD tag, stopContainer of an absent or READY/DEAD tag and
\* deleteContainer of an absent or RUNNING/STOPPING tag fail with
\* InvalidOperation and leave the Manager tables unchanged.
C13_Rejected ==
    [][(\/ ret'.op = "createContainer" /\ ret'.was # "-"
        \/ ret'.op = "startContainer" /\ ret'.was \in {"-", RUNNING, STOPPING, DEAD}
        \/ ret'.op = "stopContainer" /\ ret'.was \in {"-", READY, DEAD}
        \/ ret'.op = "deleteContainer" /\ ret'.was \in {"-", RUNNING, STOPPING})
       => (ret'.outcome = "InvalidOperation" /\ UNCHANGED tables)]_vars

\* C13 witness: deleteContainer of a STOPPING tag was rejected.
C13_Witness ==
    /\ ret.op = "deleteContainer" /\ ret.was = STOPPING
    /\ ret.outcome = "InvalidOperation"

\* C14: stopContainer on a STOPPING tag succeeds and changes nothing;
\* stopContainer on a RUNNING tag succeeds and only sets the state STOPPING, so
\* any number of stops gives the state one stop gives.
C14_StopIdempotent ==
    [][ret'.op = "stopContainer" =>
         /\ ret'.was = STOPPING => (ret'.outcome = "ok" /\ UNCHANGED tables)
         /\ ret'.was = RUNNING =>
               /\ ret'.outcome = "ok"
               /\ containerInfos' = [containerInfos EXCEPT ![ret'.tag].state = STOPPING]
               /\ UNCHANGED <<assistentManagers, runnable, runningContainers>>]_vars

\* C14 witness: stopContainer has succeeded on a tag that was already STOPPING.
C14_Witness ==
    /\ ret.op = "stopContainer" /\ ret.was = STOPPING /\ ret.outcome = "ok"
    /\ StateOf(ret.tag) = STOPPING

\* C15: a tag's state becomes DEAD only in a report of state DEAD for that tag
\* made while its state is RUNNING or STOPPING.
C15_DeadOnlyFromActive ==
    [][\A tag \in Tags :
          (Before(tag) # DEAD /\ After(tag) = DEAD)
          => /\ ret'.op = "reportContainerStatus" /\ ret'.tag = tag /\ ret'.state = DEAD
             /\ Before(tag) \in {RUNNING, STOPPING}]_vars

\* C16: a DEAD tag stays DEAD until a successful deleteContainer removes it,
\* and a tag that has been RUNNING never goes back to READY or RUNNING.
C16_DeadIsTerminal ==
    [][\A tag \in Tags :
          /\ Before(tag) = DEAD =>
                \/ After(tag) = DEAD
                \/ /\ After(tag) = "-"
                   /\ ret'.op = "deleteContainer" /\ ret'.tag = tag /\ ret'.outcome = "ok"
          /\ Before(tag) \in {RUNNING, STOPPING} => After(tag) \in {Before(tag), STOPPING, DEAD}
          /\ Before(tag) = STOPPING => After(tag) # RUNNING]_vars

\* C16 witness: a report of RUNNING for a DEAD tag was served and the tag is
\* still DEAD.
C16_Witness ==
    /\ ret.op = "reportContainerStatus" /\ ret.state = RUNNING /\ ret.was = DEAD
    /\ ret.outcome = "ok"
    /\ StateOf(ret.tag) = DEAD

\* C17: while a tag is STOPPING every report of RUNNING for it returns STOP
\* and leaves it STOPPING; the state STOPPING is left only by a report of DEAD
\* for the tag, which returns OKAY.
C17_StoppingUntilDead ==
    [][\A tag \in Tags : Before(tag) = STOPPING =>
          /\ (ret'.op = "reportContainerStatus" /\ ret'.tag = tag /\ ret'.state = RUNNING)
                => (ret'.outcome = "ok" /\ ret'.status = STOP /\ After(tag) = STOPPING)
          /\ After(tag) # STOPPING
                => /\ ret'.op = "reportContainerStatus" /\ ret'.tag = tag
                   /\ ret'.state = DEAD
                   /\ ret'.outcome = "ok" /\ ret'.status = OKAY
                   /\ After(tag) = DEAD]_vars

\* C17 witness: the DEAD report for a STOPPING tag was answered OKAY.
C17_Witness ==
    /\ ret.op = "reportContainerStatus" /\ ret.state = DEAD /\ ret.was = STOPPING
    /\ ret.outcome = "ok" /\ ret.status = OKAY
    /\ StateOf(ret.tag) = DEAD

\* C18: a tag has an AssistantInfo if and only if it has a ContainerInfo and a
\* startContainer call has succeeded for it since it was created.
C18_AssistentIffStarted ==
    \A tag \in Tags :
        tag \in DOMAIN assistentManagers <=> (tag_exists(tag) /\ tag \in started)

\* C18 witness: a started tag that was still queued has been deleted, and its
\* AssistantInfo went with it.
C18_Witness ==
    /\ ret.op = "deleteContainer" /\ ret.outcome = "ok"
    /\ Count(ret.tag, runnable) > 0
    /\ ~tag_exists(ret.tag)
    /\ getAssistentManagerStatus(ret.tag) = None

\* C19: for a promoted tag getAssistentManagerStatus returns the pid, the
\* workloadPid and the cgroupPath of the report that promoted it; before the
\* promotion the pids are unset.
C19_StampedByPromotion ==
    \A tag \in DOMAIN assistentManagers :
        LET info == getAssistentManagerStatus(tag) IN
        IF tag \in DOMAIN promotion
        THEN /\ info.pid = promotion[tag].pid
             /\ info.workloadPid = promotion[tag].workloadPid
             /\ info.cgroupPath = promotion[tag].cgroupPath
        ELSE info.pid = UnsetPid /\ info.workloadPid = UnsetPid

\* C20: with the Manager reachable and the Executor and the Assistents taking
\* their turns, every tag that was created and started and is not deleted
\* eventually reaches the state RUNNING.
C20_StartedEventuallyRunning ==
    \A tag \in Tags :
        (tag_exists(tag) /\ tag \in started /\ StateOf(tag) = READY)
        ~> (~tag_exists(tag) \/ StateOf(tag) = RUNNING)

\* an Assistent that will take another turn of its monitor loop
InLoop(p) == p.pc \in LoopPcs

\* the Assistents in their monitor loop for a tag
Monitors(tag) == {pid \in Pids : InLoop(procs[pid]) /\ procs[pid].tag = tag}

\* C21: with the Manager reachable and the Assistent taking its turns, a
\* RUNNING or STOPPING container has an Assistent monitoring it, and once the
\* workload of that Assistent has exited the container eventually reaches
\* DEAD; deleteContainer on a DEAD container succeeds.
C21_ExitedEventuallyDead ==
    /\ \A tag \in Tags :
          [](tag_exists(tag) /\ StateOf(tag) \in {RUNNING, STOPPING} => Monitors(tag) # {})
    /\ \A tag \in Tags, pid \in Pids :
          (/\ pid \in Monitors(tag) /\ procs[pid].workload = "exited"
           /\ tag_exists(tag) /\ StateOf(tag) \in {RUNNING, STOPPING})
          ~> (tag_exists(tag) /\ StateOf(tag) = DEAD)
    /\ [][ret'.op = "deleteContainer" /\ ret'.was = DEAD => ret'.outcome = "ok"]_vars

\* C21 witness: a container that was asked to stop is DEAD after the DEAD
\* report of its Assistent, which has left its loop with status 0.
C21_Witness ==
    /\ ret.op = "reportContainerStatus" /\ ret.state = DEAD /\ ret.was = STOPPING
    /\ ret.outcome = "ok"
    /\ StateOf(ret.tag) = DEAD
    /\ \E pid \in Pids :
          /\ procs[pid].tag = ret.tag /\ procs[pid].pc = "zombie"
          /\ procs[pid].status = 0 /\ procs[pid].workload = "gone"

\* C22: after a Manager restart the first report that a surviving Assistent
\* delivers is answered ABORT, and the fan-out of that turn takes the
\* Assistent to its exit with status 1, whatever the user has called since the
\* restart.
C22_SurvivorsAborted ==
    /\ [][\A pid \in DOMAIN survivors :
             (survivors[pid] = "report" /\ manager = "up" /\ AssistentSendReport(pid))
             => /\ ret'.op = "reportContainerStatus" /\ ret'.tag = procs[pid].tag
                /\ ret'.outcome = "ok" /\ ret'.status = ABORT
                /\ procs'[pid].pc = "kill"]_vars
    /\ [][\A pid \in DOMAIN survivors :
             (survivors[pid] = "signal" /\ AssistentSendSignal(pid))
             => procs'[pid].pc = "abort"]_vars

\* C23: listContainers changes no Manager table; without tags it returns the
\* ContainerInfo of every existing tag, with tags that all exist it returns
\* their ContainerInfo in the order of the request, and with an absent tag it
\* fails with InvalidOperation.
C23_ListContainers ==
    /\ [][ret'.op = "listContainers" => UNCHANGED tables]_vars
    /\ [](ret.op = "listContainers" =>
            IF ret.tags = <<>>
            THEN /\ ret.outcome = "ok"
                 /\ Len(ret.infos) = Cardinality(DOMAIN containerInfos)
                 /\ \A tag \in DOMAIN containerInfos :
                       \E i \in 1..Len(ret.infos) : ret.infos[i] = containerInfos[tag]
            ELSE IF \A i \in 1..Len(ret.tags) : tag_exists(ret.tags[i])
            THEN /\ ret.outcome = "ok"
                 /\ Len(ret.infos) = Len(ret.tags)
                 /\ \A i \in 1..Len(ret.tags) :
                       ret.infos[i] = containerInfos[ret.tags[i]]
            ELSE ret.outcome = "InvalidOperation" /\ ret.infos = <<>>)

\* C23 witness: two existing tags in different states were listed in the
\* order of the request.
C23_Witness ==
    /\ ret.op = "listContainers" /\ ret.outcome = "ok"
    /\ Len(ret.tags) = 2 /\ ret.tags[1] # ret.tags[2]
    /\ ret.infos[1].tag = ret.tags[1] /\ ret.infos[2].tag = ret.tags[2]
    /\ ret.infos[1].state # ret.infos[2].state

\* C24: a forked child runs the Assistent binary only after the Executor has
\* created the directory of its tag and moved it there, also when the
\* Executor fails in doing so: no child execs outside its per-tag cgroup.
C24_ExecInsideCgroup ==
    [][\A pid \in Pids :
          (~procs[pid].execed /\ procs'[pid].execed) => procs[pid].inCgroup]_vars

\* C25: whenever the Executor is not inside a launch (between its fork and
\* the end of prepareChild), the cgroup directory of every tag of the children
\* map exists; and a children entry is erased only in a step that has removed
\* the directory of its tag.
C25_ChildrenHaveCgroup ==
    /\ [](executor # "prepare" => \A pid \in DOMAIN children : children[pid] \in cgroups)
    /\ [][\A pid \in DOMAIN children :
             pid \notin DOMAIN children' => children[pid] \notin cgroups']_vars

\* C25 witness: the Assistent of a DEAD container has been reaped and its
\* directory removed while another child of the Executor is still there.
C25_Witness ==
    /\ executor = "launch"
    /\ \E tag \in Tags :
          /\ tag_exists(tag) /\ StateOf(tag) = DEAD
          /\ tag \notin cgroups
          /\ \A pid \in DOMAIN children : children[pid] # tag
    /\ children # EmptyDict

\* C26: when the removal of a reaped Assistent's cgroup directory fails
\* because the cgroup still has members, the Executor does not end: it goes
\* on with its loop and keeps the entry, to try again on a later tick.
C26_BusyCgroupRetried ==
    [][\A pid \in DOMAIN children :
          (executor = "reap" /\ procs[pid].pc = "zombie" /\ CgroupBusy(children[pid]))
          => (executor' \in {"reap", "launch"} /\ pid \in DOMAIN children')]_vars

\* C27: a call to the Manager that fails because the Manager is down ends
\* neither the Executor nor an Assistent in its monitor loop: while the Manager
\* is down an Executor about to call dequeueReadyContainers is running after
\* its step, and an Assistent about to report is in its loop after its step.
C27_RpcFailureNotFatal ==
    [][(manager = "down" /\ manager' = "down")
       => /\ (executor = "launch" /\ launching = <<>>) => Running(Forked)'
          /\ (orphan.pc = "launch" /\ orphan.launching = <<>>) => Running(orphan')
          /\ \A pid \in Pids :
                procs[pid].pc = "report" => InLoop(procs'[pid])]_vars

\* C28: an Assistent that has reaped its workload leaves its monitor loop with
\* status 0 only in a turn whose DEAD report for its tag the Manager has
\* served; after a report that failed it is still in its loop. So no tag is
\* RUNNING or STOPPING while the Assistent registered for it has exited 0.
C28_ExitAfterDeadReport ==
    /\ [][\A pid \in Pids :
             (InLoop(procs[pid]) /\ procs'[pid].pc = "break")
             => /\ manager = "up"
                /\ ret'.op = "reportContainerStatus" /\ ret'.tag = procs[pid].tag
                /\ ret'.state = DEAD /\ ret'.outcome = "ok"]_vars
    /\ [](\A tag \in DOMAIN containerInfos, pid \in Pids :
             (/\ StateOf(tag) \in {RUNNING, STOPPING}
              /\ procs[pid].tag = tag /\ assistentManagers[tag].pid = pid)
             => ~(procs[pid].pc = "zombie" /\ procs[pid].status = 0))

\* C29: an Assistent whose report is answered ABORT has, at the end of that
\* turn, sent SIGKILL to its workload and is on its way to sys.exit(1), with no
\* further report, also when a pid read from cgroup.procs has ended before
\* its kill.
C29_AbortTerminates ==
    /\ [][\A pid \in Pids :
             (/\ manager = "up" /\ AssistentSendReport(pid)
              /\ ret'.op = "reportContainerStatus" /\ ret'.outcome = "ok"
              /\ ret'.status = ABORT)
             => procs'[pid].pc = "kill"]_vars
    /\ [][\A pid \in Pids :
             (procs[pid].pc = "kill" /\ AssistentSendSignal(pid))
             => /\ procs'[pid].pc = "abort"
                /\ procs[pid].workload = "running"
                   => procs'[pid].workload = "signalled"]_vars

\* C30: in a fan-out, a pid that ended after cgroup.procs was read costs
\* nothing but its own delivery: every other pid read, the caller and the
\* ignored ones apart, is sent the signal, and the call returns normally.
C30_BestEffortFanout ==
    fanout.done =>
        /\ fanout.sent = Targets(fanout.members, fanout.caller, fanout.ignore) \ fanout.gone
        /\ ~fanout.raised

\* C31: the fan-out of an Assistent answered STOP or ABORT never signals the
\* Assistent itself: the pids signalled are the members read from cgroup.procs
\* other than the Assistent, every one of them that has not ended since the
\* read; and an Assistent answered STOP is after its fan-out still in its
\* loop, at the top of its next turn.
C31_CallerNotSignalled ==
    [][\A pid \in Pids :
          \A members \in Readings(pid) :
             \A gone \in SUBSET (members \cap CommandPids),
                order \in Orders(Targets(members, pid, {})) :
                fanOut(pid, members, gone, order)
                => LET kill == sendSignalToCgroup(members, pid, {}, gone, order)
                   IN  /\ pid \notin kill.sent
                       /\ kill.sent = (members \ {pid}) \ gone
                       /\ procs[pid].pc = "term" => procs'[pid].pc = "monitor"]_vars

\* C32: an Assistent whose tag has no AssistentManagerInfo when it asks is
\* given none, and an Assistent that was given none terminates with status 1,
\* has started no workload and has made no call that changed the Manager or
\* was recorded as a report.
C32_RogueExits ==
    /\ [][\A pid \in Pids :
             (/\ AssistentSetup(pid) /\ procs[pid].inCgroup
              /\ procs[pid].tag \notin DOMAIN assistentManagers)
             => (procs'[pid].pc = "init" /\ procs'[pid].command = "")]_vars
    /\ [][\A pid \in Pids :
             (/\ procs[pid].pc = "init" /\ procs[pid].execed /\ procs[pid].command = ""
              /\ procs'[pid] # procs[pid])
             => /\ procs'[pid].pc = "zombie" /\ procs'[pid].status = 1
                /\ procs'[pid].workload = "none"
                /\ ret' = ret /\ UNCHANGED tables]_vars

\* C32 witness: an Assistent launched inside its cgroup has exited 1 without
\* a workload, its tag deleted before it asked for its info.
C32_Witness ==
    \E pid \in Pids :
        /\ procs[pid].pc = "zombie" /\ procs[pid].status = 1
        /\ procs[pid].inCgroup /\ procs[pid].workload = "none"
        /\ procs[pid].execed /\ procs[pid].command = ""
        /\ procs[pid].tag \notin DOMAIN assistentManagers
        /\ ret.op = "deleteContainer" /\ ret.outcome = "ok" /\ ret.tag = procs[pid].tag

\* an Assistent of the tag that the Executor put in the tag's cgroup and whose
\* exec failed
Failed(pid, tag) ==
    /\ procs[pid].pc = "zombie" /\ ~procs[pid].execed
    /\ procs[pid].tag = tag /\ procs[pid].inCgroup

\* the tag as its launch left it: READY, with its AssistentManagerInfo, off
\* the runnable queue
Launched(tag) ==
    /\ tag_exists(tag) /\ StateOf(tag) = READY
    /\ tag \in DOMAIN assistentManagers
    /\ \A i \in 1..Len(runnable) : runnable[i] # tag

\* C33: an Assistent whose exec failed is reaped by the Executor, which
\* removes its cgroup; and the tag it was launched for stays READY, with the
\* same AssistentManagerInfo, and off the runnable queue until a
\* deleteContainer call for it.
C33_ExecFailureLeavesReady ==
    /\ \A pid \in Pids, tag \in Tags :
          Failed(pid, tag) ~> (procs[pid].pc = "none" /\ tag \notin cgroups)
    /\ [][\A pid \in Pids, tag \in Tags :
             (/\ Failed(pid, tag) \/ (procs[pid].pc = "init" /\ Failed(pid, tag)')
              /\ Launched(tag)
              /\ ~(ret'.op = "deleteContainer" /\ ret'.tag = tag /\ ret' # ret))
             => (Launched(tag)' /\ assistentManagers'[tag] = assistentManagers[tag])]_vars

\* C34: the report of a monitor turn has state DEAD exactly when that turn's
\* zombie check reaped the workload, and RUNNING otherwise; after a DEAD
\* report the ContainerInfo of the tag holds the exit info that was reaped.
C34_DeadReportCarriesExitInfo ==
    [][\A pid \in Pids :
          (manager = "up" /\ AssistentSendReport(pid))
          => /\ ret'.op = "reportContainerStatus" /\ ret'.tag = procs[pid].tag
             /\ ret'.state = IF procs[pid].workload = "gone" THEN DEAD ELSE RUNNING
             /\ (ret'.state = DEAD /\ procs[pid].tag \in DOMAIN containerInfos')
                => containerInfos'[procs[pid].tag].exitInfo = procs[pid].exit]_vars

\* no element of the sequence occurs twice
NoDuplicates(q) == \A i, j \in 1..Len(q) : i # j => q[i] # q[j]

\* C35: the runnable queue holds each tag at most once, and so does every
\* dequeueReadyContainers response.
C35_QueueHoldsTagOnce ==
    /\ NoDuplicates(runnable)
    /\ ret.op = "dequeueReadyContainers" => NoDuplicates(ret.tags)

\* the Assistents of a tag that have not exited
Alive(tag) ==
    {pid \in Pids : procs[pid].pc \in LivePcs /\ procs[pid].tag = tag}

\* C36: when the Executor launches the Assistent of a dequeued tag, the tag
\* has neither its directory nor an entry in the children map, and the launch
\* does not fail; at no time has a tag two Assistents that have not exited.
C36_LaunchFindsNoCgroup ==
    /\ [][(executor = "launch" /\ executor' = "prepare")
          => /\ Head(launching) \notin cgroups
             /\ \A pid \in DOMAIN children : children[pid] # Head(launching)]_vars
    /\ [][(executor = "prepare" /\ executor' # "prepare") => executor' # "crashed"]_vars
    /\ [](\A tag \in Tags : Cardinality(Alive(tag)) <= 1)

\* C37: the report that promotes a tag to RUNNING comes from an Assistent
\* that runs the command of the tag's AssistentManagerInfo: an Assistent that
\* fetched its info before the tag was deleted and created again does not
\* promote the new tag.
C37_PromotedByOwnAssistent ==
    [][\A pid \in Pids :
          (/\ manager = "up" /\ AssistentSendReport(pid)
           /\ procs[pid].tag \in DOMAIN containerInfos
           /\ StateOf(procs[pid].tag) = READY
           /\ containerInfos'[procs[pid].tag].state = RUNNING)
          => procs[pid].command = assistentManagers'[procs[pid].tag].command]_vars
====
